---- MODULE Spec2Model ----
(***************************************************************************)
(* scripts/predict_rice_grain.py: a command-line script that loads a       *)
(* TFLite model, preprocesses one image, runs one forward pass and prints  *)
(* the predicted rice variety.                                             *)
(*                                                                         *)
(* The model follows __main__ statement by statement.  The inference       *)
(* runtime and the image library are black boxes: what they do with a      *)
(* file is an attribute of that file (modelFile, imageFile), so a fixed    *)
(* file always gives the same outcome.  Scores are float32 values kept as  *)
(* integers in units of 1/100000 (100000 is 1.0).                          *)
(***************************************************************************)
EXTENDS Integers, Sequences, FiniteSets, TLC

VARIABLES
    TFLITE_FP32_PATH,  \* args.model
    Image_PATH,        \* args.image
    modelFile,         \* what is on disk at TFLITE_FP32_PATH
    imageFile,         \* what is on disk at Image_PATH
    pc,                \* the statement __main__ is about to execute
    interpreter,       \* the tf.lite.Interpreter: "none", "created", "allocated"
    img_array,         \* load_single_image's result: <<>> or its shape
    inputTensor,       \* what set_tensor bound to the input slot: <<>> or a shape
    output,            \* the output tensor's row 0 after invoke: <<>> before
    pred,              \* np.argmax(output[0]), 0-based; -1 before
    confidence,        \* np.max(output[0]); -1 before
    exc,               \* the exception in flight: "" when none
    stdout,            \* the lines printed to standard output
    stderr,            \* the lines printed to standard error
    exitCode,          \* the process's exit code; -1 while running
    trace,             \* history: the steps executed so far, in order
    run,               \* history: which invocation of the program this is
    prev               \* history: the outcome of the previous invocation

vars == <<TFLITE_FP32_PATH, Image_PATH, modelFile, imageFile, pc, interpreter,
          img_array, inputTensor, output, pred, confidence, exc, stdout,
          stderr, exitCode, trace, run, prev>>

env == <<TFLITE_FP32_PATH, Image_PATH, modelFile, imageFile>>
hist == <<run, prev>>

(***************************************************************************)
(* Bounds and input sets                                                   *)
(***************************************************************************)
\* The longest output vector a model file on disk may produce.
MaxOut == 6

\* The invocations of the program that are composed in TwoRunSpec.
MaxRuns == 2

\* The label table of line 81.
classes == <<"Karacadag", "Ipsala", "Arborio", "Basmati", "Jasmine">>

\* The default target_size of load_single_image (square, one side).
target_size == 128

\* The width of the report's rules ("=" * 60, "-" * 60).
RuleWidth == 60

\* 0.2, 0.99996 and 1.3 as float32 scores in units of 1/100000.
ScoreVals == {20000, 99996, 130000}

ModelPaths == {"../models/tflite/rice_classifier.tflite", "other.tflite"}
ImagePaths == {"grain.jpg", "leaf.png"}

\* Input side lengths a model file may declare.
InputSizes == {target_size, 224}

OutVectors == UNION {[1..n -> ScoreVals] : n \in Len(classes)..MaxOut}

\* A model file: missing, not a model ("garbage"), a model whose forward
\* pass fails in the backend ("unsupported"), or a model that runs ("ok").
ModelFiles ==
    {[kind |-> k, inSize |-> target_size, out |-> <<>>] :
        k \in {"missing", "garbage", "unsupported"}}
    \cup {[kind |-> "ok", inSize |-> s, out |-> v] :
            s \in InputSizes \ {target_size}, v \in {[i \in 1..Len(classes) |-> 20000]}}
    \cup {[kind |-> "ok", inSize |-> target_size, out |-> v] : v \in OutVectors}

ImageFiles == {"missing", "corrupt", "ok"}

(***************************************************************************)
(* Pure helpers                                                            *)
(***************************************************************************)
\* os.path.exists
exists(file) == file # "missing"

\* np.max(output[0])
npMax(v) == CHOOSE x \in {v[i] : i \in 1..Len(v)} :
                \A j \in 1..Len(v) : v[j] <= x

\* Variant of npArgmax: np.argmin in place of np.argmax
npArgmax_Argmin(v) ==
    (CHOOSE i \in 1..Len(v) : \A j \in 1..Len(v) : v[i] <= v[j]) - 1

\* np.argmax(output[0]): the first position of the maximum, 0-based
npArgmax(v) == (CHOOSE i \in 1..Len(v) :
                    /\ v[i] = npMax(v)
                    /\ \A j \in 1..(i - 1) : v[j] # npMax(v)) - 1

\* f"{confidence*100:.2f}": the percentage in hundredths, rounded to the
\* nearest, ties to even (c is in units of 1/100000, so c/10 hundredths)
FormatPct(c) ==
    LET q == c \div 10
        r == c % 10
    IN  IF r < 5 THEN q
        ELSE IF r > 5 THEN q + 1
        ELSE IF q % 2 = 0 THEN q ELSE q + 1

\* One printed line: fixed text, an interpolated string, an interpolated number
Line(text, arg, pct) == [text |-> text, arg |-> arg, pct |-> pct]

Rule(ch) == Line(ch, "", RuleWidth)

ModelNotFoundLine(path) == Line("Model not found: ", path, -1)
ImageNotFoundLine(path) == Line("Image not found: ", path, -1)
ErrorLine(msg) == Line("Error: ", msg, -1)
TitleLine == Line("RICE GRAIN CLASSIFICATION RESULTS", "", -1)
ImageLine(path) == Line("Image: ", path, -1)
PredictionLine(name, c) == Line("Prediction: ", name, FormatPct(c))

\* Variant of ReportHead: the image line shows the model's path
ReportHead_ModelPath(path) ==
    <<Line("", "", -1), Rule("="), TitleLine, Rule("="),
      ImageLine(TFLITE_FP32_PATH), Rule("-")>>

\* Lines 89-93: everything of the report before the prediction line
ReportHead(path) ==
    <<Line("", "", -1), Rule("="), TitleLine, Rule("="), ImageLine(path), Rule("-")>>

(***************************************************************************)
(* The process                                                             *)
(***************************************************************************)
\* The state of a process that has just left parse_args (lines 67-70)
Fresh ==
    /\ pc = "check_model"
    /\ interpreter = "none"
    /\ img_array = <<>>
    /\ inputTensor = <<>>
    /\ output = <<>>
    /\ pred = -1
    /\ confidence = -1
    /\ exc = ""
    /\ stdout = <<>>
    /\ stderr = <<>>
    /\ exitCode = -1
    /\ trace = <<>>

Init ==
    /\ TFLITE_FP32_PATH \in ModelPaths
    /\ Image_PATH \in ImagePaths
    /\ modelFile \in ModelFiles
    /\ imageFile \in ImageFiles
    /\ Fresh
    /\ run = 1
    /\ prev = <<>>

\* sys.exit(code)
Exit(code) ==
    /\ exitCode' = code
    /\ pc' = "exited"

\* raise inside the try block: control goes to the except clause of line 96
Raise(msg) ==
    /\ exc' = msg
    /\ pc' = "except"

Step(name) == trace' = Append(trace, name)

\* Variant of CheckModel: the message goes to standard error
CheckModel_ToStderr ==
    /\ pc = "check_model"
    /\ Step("check_model")
    /\ IF ~exists(modelFile.kind)
       THEN /\ stderr' = Append(stderr, ModelNotFoundLine(TFLITE_FP32_PATH))
            /\ Exit(1)
       ELSE /\ pc' = "check_image"
            /\ UNCHANGED <<stderr, exitCode>>
    /\ UNCHANGED <<env, hist, interpreter, img_array, inputTensor, output,
                   pred, confidence, exc, stdout>>

\* Variant of CheckModel: the message is printed and the run goes on
CheckModel_NoExit ==
    /\ pc = "check_model"
    /\ Step("check_model")
    /\ IF ~exists(modelFile.kind)
       THEN stdout' = Append(stdout, ModelNotFoundLine(TFLITE_FP32_PATH))
       ELSE UNCHANGED stdout
    /\ pc' = "check_image"
    /\ UNCHANGED <<env, hist, interpreter, img_array, inputTensor, output,
                   pred, confidence, exc, stderr, exitCode>>

\* Lines 72-74
CheckModel ==
    /\ pc = "check_model"
    /\ Step("check_model")
    /\ IF ~exists(modelFile.kind)
       THEN /\ stdout' = Append(stdout, ModelNotFoundLine(TFLITE_FP32_PATH))
            /\ Exit(1)
       ELSE /\ pc' = "check_image"
            /\ UNCHANGED <<stdout, exitCode>>
    /\ UNCHANGED <<env, hist, interpreter, img_array, inputTensor, output,
                   pred, confidence, exc, stderr>>

\* Variant of CheckImage: sys.exit() without a code, which exits 0
CheckImage_ExitDefault ==
    /\ pc = "check_image"
    /\ Step("check_image")
    /\ IF ~exists(imageFile)
       THEN /\ stdout' = Append(stdout, ImageNotFoundLine(Image_PATH))
            /\ Exit(0)
       ELSE /\ pc' = "load"
            /\ UNCHANGED <<stdout, exitCode>>
    /\ UNCHANGED <<env, hist, interpreter, img_array, inputTensor, output,
                   pred, confidence, exc, stderr>>

\* Variant of CheckImage: the message is printed and the run goes on
CheckImage_NoExit ==
    /\ pc = "check_image"
    /\ Step("check_image")
    /\ IF ~exists(imageFile)
       THEN stdout' = Append(stdout, ImageNotFoundLine(Image_PATH))
       ELSE UNCHANGED stdout
    /\ pc' = "load"
    /\ UNCHANGED <<env, hist, interpreter, img_array, inputTensor, output,
                   pred, confidence, exc, stderr, exitCode>>

\* Lines 76-78
CheckImage ==
    /\ pc = "check_image"
    /\ Step("check_image")
    /\ IF ~exists(imageFile)
       THEN /\ stdout' = Append(stdout, ImageNotFoundLine(Image_PATH))
            /\ Exit(1)
       ELSE /\ pc' = "load"
            /\ UNCHANGED <<stdout, exitCode>>
    /\ UNCHANGED <<env, hist, interpreter, img_array, inputTensor, output,
                   pred, confidence, exc, stderr>>

\* Lines 83, 15: tf.lite.Interpreter(model_path=...) raises on a file that
\* is not a model
NewInterpreter ==
    /\ pc = "load"
    /\ Step("load")
    /\ IF modelFile.kind \in {"missing", "garbage"}
       THEN /\ Raise("ValueError: could not open model")
            /\ UNCHANGED interpreter
       ELSE /\ interpreter' = "created"
            /\ pc' = "allocate"
            /\ UNCHANGED exc
    /\ UNCHANGED <<env, hist, img_array, inputTensor, output, pred,
                   confidence, stdout, stderr, exitCode>>

\* Lines 16-17: interpreter.allocate_tensors()
AllocateTensors ==
    /\ pc = "allocate"
    /\ Step("allocate")
    /\ interpreter' = "allocated"
    /\ pc' = "preprocess"
    /\ UNCHANGED <<env, hist, img_array, inputTensor, output, pred,
                   confidence, exc, stdout, stderr, exitCode>>

\* Lines 86, 38-47: load_single_image(Image_PATH), the argument of the call
\* of line 85, evaluated after line 83
LoadSingleImage ==
    /\ pc = "preprocess"
    /\ Step("preprocess")
    /\ IF imageFile # "ok"
       THEN /\ Raise("UnidentifiedImageError: cannot identify image file")
            /\ UNCHANGED img_array
       ELSE /\ img_array' = <<1, target_size, target_size, 3>>
            /\ pc' = "set_tensor"
            /\ UNCHANGED exc
    /\ UNCHANGED <<env, hist, interpreter, inputTensor, output, pred,
                   confidence, stdout, stderr, exitCode>>

\* Lines 27-30: set_tensor raises when the array's shape is not the input
\* slot's
SetTensor ==
    /\ pc = "set_tensor"
    /\ Step("set_tensor")
    /\ IF img_array # <<1, modelFile.inSize, modelFile.inSize, 3>>
       THEN /\ Raise("ValueError: Cannot set tensor: Dimension mismatch")
            /\ UNCHANGED inputTensor
       ELSE /\ inputTensor' = img_array
            /\ pc' = "invoke"
            /\ UNCHANGED exc
    /\ UNCHANGED <<env, hist, interpreter, img_array, output, pred,
                   confidence, stdout, stderr, exitCode>>

\* Variant of Invoke: the output slot is read without waiting for the
\* forward pass, and holds either the result or the buffer's old content
Invoke_Stale ==
    /\ pc = "invoke"
    /\ Step("invoke")
    /\ IF modelFile.kind = "unsupported"
       THEN /\ Raise("RuntimeError: failed to invoke")
            /\ UNCHANGED output
       ELSE /\ output' \in {modelFile.out,
                            [i \in 1..Len(modelFile.out) |-> 20000]}
            /\ pc' = "result"
            /\ UNCHANGED exc
    /\ UNCHANGED <<env, hist, interpreter, img_array, inputTensor, pred,
                   confidence, stdout, stderr, exitCode>>

\* Line 31: interpreter.invoke()
Invoke ==
    /\ pc = "invoke"
    /\ Step("invoke")
    /\ IF modelFile.kind = "unsupported"
       THEN /\ Raise("RuntimeError: failed to invoke")
            /\ UNCHANGED output
       ELSE /\ output' = modelFile.out
            /\ pc' = "result"
            /\ UNCHANGED exc
    /\ UNCHANGED <<env, hist, interpreter, img_array, inputTensor, pred,
                   confidence, stdout, stderr, exitCode>>

\* Lines 33-34 and the assignment of line 85
Predict ==
    /\ pc = "result"
    /\ Step("result")
    /\ pred' = npArgmax(output)
    /\ confidence' = npMax(output)
    /\ pc' = "print_head"
    /\ UNCHANGED <<env, hist, interpreter, img_array, inputTensor, output,
                   exc, stdout, stderr, exitCode>>

\* Lines 89-93
PrintHead ==
    /\ pc = "print_head"
    /\ Step("print_head")
    /\ stdout' = stdout \o ReportHead(Image_PATH)
    /\ pc' = "print_prediction"
    /\ UNCHANGED <<env, hist, interpreter, img_array, inputTensor, output,
                   pred, confidence, exc, stderr, exitCode>>

\* Lines 94-95, then the end of __main__: classes[pred] raises IndexError
\* past the end of the table
PrintPrediction ==
    /\ pc = "print_prediction"
    /\ Step("print_prediction")
    /\ IF pred + 1 > Len(classes)
       THEN /\ Raise("IndexError: list index out of range")
            /\ UNCHANGED <<stdout, exitCode>>
       ELSE /\ stdout' = stdout \o
                <<PredictionLine(classes[pred + 1], confidence), Rule("=")>>
            /\ Exit(0)
            /\ UNCHANGED exc
    /\ UNCHANGED <<env, hist, interpreter, img_array, inputTensor, output,
                   pred, confidence, stderr>>

\* Variant of HandleException: print without file=sys.stderr
HandleException_ToStdout ==
    /\ pc = "except"
    /\ stdout' = Append(stdout, ErrorLine(exc))
    /\ Exit(1)
    /\ UNCHANGED <<env, hist, interpreter, img_array, inputTensor, output,
                   pred, confidence, exc, stderr, trace>>

\* Variant of HandleException: the first failure is retried from the load
HandleException_Retry ==
    /\ pc = "except"
    /\ stderr' = Append(stderr, ErrorLine(exc))
    /\ IF Len(stderr) = 0
       THEN /\ pc' = "load"
            /\ UNCHANGED exitCode
       ELSE Exit(1)
    /\ UNCHANGED <<env, hist, interpreter, img_array, inputTensor, output,
                   pred, confidence, exc, stdout, trace>>

\* Lines 96-98
HandleException ==
    /\ pc = "except"
    /\ stderr' = Append(stderr, ErrorLine(exc))
    /\ Exit(1)
    /\ UNCHANGED <<env, hist, interpreter, img_array, inputTensor, output,
                   pred, confidence, exc, stdout, trace>>

\* Lines 101-102: the program is started again on the same arguments; the
\* new process shares nothing with the old one but the files
Restart ==
    /\ pc = "exited"
    /\ run < MaxRuns
    /\ run' = run + 1
    /\ prev' = <<exitCode, stdout, stderr>>
    /\ pc' = "check_model"
    /\ interpreter' = "none"
    /\ img_array' = <<>>
    /\ inputTensor' = <<>>
    /\ output' = <<>>
    /\ pred' = -1
    /\ confidence' = -1
    /\ exc' = ""
    /\ stdout' = <<>>
    /\ stderr' = <<>>
    /\ exitCode' = -1
    /\ trace' = <<>>
    /\ UNCHANGED env

Next ==
    \/ CheckModel
    \/ CheckImage
    \/ NewInterpreter
    \/ AllocateTensors
    \/ LoadSingleImage
    \/ SetTensor
    \/ Invoke
    \/ Predict
    \/ PrintHead
    \/ PrintPrediction
    \/ HandleException

\* One invocation
Spec == Init /\ [][Next]_vars

\* One invocation, which is never suspended: the script is synchronous
FairSpec == Spec /\ WF_vars(Next)

\* MaxRuns invocations in a row on the same files
TwoRunSpec == Init /\ [][Next \/ Restart]_vars

(***************************************************************************)
(* Vocabulary of the properties                                            *)
(***************************************************************************)
Exited == pc = "exited"

Count(s, x) == Cardinality({i \in 1..Len(s) : s[i] = x})

Texts(out) == {out[i].text : i \in 1..Len(out)}

ClassNames == {classes[i] : i \in 1..Len(classes)}

\* The texts that open a line of the report block
ReportTexts == {"", "=", "-", "RICE GRAIN CLASSIFICATION RESULTS", "Image: ",
                "Prediction: "}

\* The texts that open a missing-file message
NotFoundTexts == {"Model not found: ", "Image not found: "}

\* The complete report for a class name and a percentage in hundredths
FullReport(name, pct) ==
    << [text |-> "", arg |-> "", pct |-> -1],
       [text |-> "=", arg |-> "", pct |-> 60],
       [text |-> "RICE GRAIN CLASSIFICATION RESULTS", arg |-> "", pct |-> -1],
       [text |-> "=", arg |-> "", pct |-> 60],
       [text |-> "Image: ", arg |-> Image_PATH, pct |-> -1],
       [text |-> "-", arg |-> "", pct |-> 60],
       [text |-> "Prediction: ", arg |-> name, pct |-> pct],
       [text |-> "=", arg |-> "", pct |-> 60] >>

\* The interpreter accepts the file: it is a model artifact
ValidArtifact == modelFile.kind \in {"unsupported", "ok"}

ValidImage == imageFile = "ok"

\* The model file's largest score is at one of the positions the label
\* table covers, and is a probability
MaxWithinTable ==
    \E i \in 1..Len(classes) :
        /\ i <= Len(modelFile.out)
        /\ \A j \in 1..Len(modelFile.out) : modelFile.out[j] <= modelFile.out[i]
        /\ modelFile.out[i] >= 0
        /\ modelFile.out[i] <= 100000

\* A model artifact that loads, takes the preprocessed tensor and runs
RunsOnInput ==
    /\ modelFile.kind = "ok"
    /\ modelFile.inSize = 128

(***************************************************************************)
(* C1                                                                      *)
(***************************************************************************)
\* C1 as stated: a run on a valid model artifact and a valid image exits 0,
\* prints the report (image path, one of the five class names, a confidence
\* between 0.00% and 100.00%) and writes nothing to standard error.
C1_ValidFilesGiveReport ==
    (Exited /\ ValidArtifact /\ ValidImage) =>
        /\ exitCode = 0
        /\ stderr = <<>>
        /\ \E name \in ClassNames, pct \in 0..10000 :
               stdout = FullReport(name, pct)

\* C1 amended: a run on a valid image and a valid model artifact that takes
\* the preprocessed tensor, runs, and has its largest score, a value in
\* [0,1], at one of the five positions of the label table, exits 0, prints
\* exactly the report (image path, one of the five class names, a confidence
\* between 0.00% and 100.00%) and writes nothing to standard error.
C1_ConformingModelGivesReport ==
    (Exited /\ RunsOnInput /\ MaxWithinTable /\ ValidImage) =>
        /\ exitCode = 0
        /\ stderr = <<>>
        /\ \E name \in ClassNames, pct \in 0..10000 :
               stdout = FullReport(name, pct)

\* A finished run on a conforming model whose confidence 0.99996 is printed
\* as 100.00%
C1_Witness ==
    /\ Exited /\ RunsOnInput /\ MaxWithinTable /\ ValidImage
    /\ exitCode = 0
    /\ confidence = 99996
    /\ stdout[7].pct = 10000

(***************************************************************************)
(* C2                                                                      *)
(***************************************************************************)
\* C2: when the model path does not exist, the run prints only
\* "Model not found: <model path>" on standard output, nothing on standard
\* error, no report, and exits with code 1.
C2_ModelNotFound ==
    ~exists(modelFile.kind) =>
        /\ stderr = <<>>
        /\ Texts(stdout) \cap ReportTexts = {}
        /\ stdout \in {<<>>, <<[text |-> "Model not found: ",
                               arg |-> TFLITE_FP32_PATH, pct |-> -1]>>}
        /\ Exited => (exitCode = 1 /\ stdout # <<>>)
        /\ ~Exited => exitCode = -1

C2_Witness ==
    /\ Exited
    /\ ~exists(modelFile.kind)
    /\ exists(imageFile)
    /\ exitCode = 1

(***************************************************************************)
(* C3                                                                      *)
(***************************************************************************)
ImageNotFoundPrinted ==
    \E i \in 1..Len(stdout) :
        stdout[i] = [text |-> "Image not found: ", arg |-> Image_PATH, pct |-> -1]

\* C3 as stated: when the image path does not exist, the run exits with
\* code 1 and prints "Image not found: <image path>" on standard output.
C3_ImageNotFound ==
    (Exited /\ ~exists(imageFile)) =>
        /\ exitCode = 1
        /\ ImageNotFoundPrinted

\* C3 amended: when the image path does not exist and the model path
\* exists, the run exits with code 1 and prints "Image not found: <image
\* path>" (and nothing else) on standard output.
C3_ImageNotFoundModelPresent ==
    (Exited /\ ~exists(imageFile) /\ exists(modelFile.kind)) =>
        /\ exitCode = 1
        /\ ImageNotFoundPrinted
        /\ Len(stdout) = 1

C3_Witness ==
    /\ Exited
    /\ ~exists(imageFile)
    /\ exists(modelFile.kind)
    /\ ImageNotFoundPrinted

(***************************************************************************)
(* C4                                                                      *)
(***************************************************************************)
\* A step after the path checks fails: the model file is not an artifact,
\* the image does not decode, the shapes differ or the forward pass fails
LaterStepFails ==
    /\ exists(modelFile.kind)
    /\ exists(imageFile)
    /\ \/ modelFile.kind = "garbage"
       \/ imageFile = "corrupt"
       \/ modelFile.inSize # 128
       \/ modelFile.kind = "unsupported"

\* C4: when both paths exist and a later step fails, the run exits with
\* code 1 and an error message on standard error; it prints no missing-file
\* message and never exits 0.
C4_LaterFailureToStderr ==
    LaterStepFails =>
        /\ Texts(stdout) \cap NotFoundTexts = {}
        /\ exitCode # 0
        /\ Exited =>
              /\ exitCode = 1
              /\ Len(stderr) = 1
              /\ stderr[1].text = "Error: "
              /\ stderr[1].arg # ""

\* A run that failed on a shape mismatch, with a good image
C4_Witness ==
    /\ Exited
    /\ modelFile.kind = "ok"
    /\ modelFile.inSize # 128
    /\ ValidImage
    /\ Len(stderr) = 1

(***************************************************************************)
(* C5                                                                      *)
(***************************************************************************)
\* The inference runner has returned
Predicted == pred # -1

\* (pred, confidence) is the first position of the maximum of the output
\* vector, and the value there
IsArgmaxPair ==
    /\ pred + 1 \in 1..Len(output)
    /\ \A j \in 1..Len(output) : output[j] <= output[pred + 1]
    /\ \A j \in 1..pred : output[j] < output[pred + 1]
    /\ confidence = output[pred + 1]

\* The prediction line of a run that exited 0 names the table's entry at pred
PrintedNameIsTableEntry ==
    (Exited /\ exitCode = 0) =>
        /\ Len(stdout) = 8
        /\ stdout[7].text = "Prediction: "
        /\ pred + 1 \in 1..Len(classes)
        /\ stdout[7].arg = classes[pred + 1]

\* C5 as stated: for every output vector the model returns, the runner's
\* index is in [0,4], is the position of the maximum, the confidence is the
\* value there, and the printed class name is the table's entry at the index.
C5_IndexWithinFive ==
    Predicted =>
        /\ pred \in 0..4
        /\ IsArgmaxPair
        /\ PrintedNameIsTableEntry

\* C5 amended: for every output vector the model returns, the runner's index
\* is in [0, n-1] for a vector of n scores (so in [0,4] for a vector of five),
\* is the first position of the maximum, the confidence is the value there,
\* and a report that is printed names the table's entry at the index.
C5_IndexWithinVector ==
    Predicted =>
        /\ pred \in 0..(Len(output) - 1)
        /\ (Len(output) = 5 => pred \in 0..4)
        /\ IsArgmaxPair
        /\ PrintedNameIsTableEntry

\* A printed report for a five-score vector whose maximum occurs twice, the
\* first time at index 2
C5_Witness ==
    /\ Exited
    /\ exitCode = 0
    /\ Len(output) = 5
    /\ pred = 2
    /\ output[5] = output[3]
    /\ stdout[7].arg = "Arborio"

(***************************************************************************)
(* C6                                                                      *)
(***************************************************************************)
\* C6: a run that exits with code 1 has written no line of the report block
\* to standard output.
C6_NoPartialReport ==
    (Exited /\ exitCode = 1) => Texts(stdout) \cap ReportTexts = {}

Order == <<"check_model", "check_image", "load", "allocate", "preprocess",
           "set_tensor", "invoke", "result", "print_head", "print_prediction">>

Done(step) == Count(trace, step) > 0

\* C8: the executed steps are an initial part of the fixed order; a step has
\* run only if the steps before it succeeded; nothing is loaded, decoded or
\* run before both path checks passed; tensors are allocated at most once,
\* and exactly once before a forward pass.
C8_FixedOrder ==
    /\ Len(trace) <= Len(Order)
    /\ \A i \in 1..Len(trace) : trace[i] = Order[i]
    /\ Done("check_image") => exists(modelFile.kind)
    /\ (Done("load") \/ Done("preprocess") \/ Done("invoke")) =>
           (exists(modelFile.kind) /\ exists(imageFile))
    /\ Done("allocate") => modelFile.kind # "garbage"
    /\ Done("preprocess") => interpreter = "allocated"
    /\ Done("set_tensor") => imageFile = "ok"
    /\ Done("invoke") => (inputTensor # <<>> /\ Count(trace, "allocate") = 1)
    /\ Done("result") => output # <<>>
    /\ Done("print_head") => Predicted
    /\ Count(trace, "allocate") <= 1
    /\ (interpreter = "allocated") = Done("allocate")

\* A run that went through every step
C8_Witness ==
    /\ Exited
    /\ exitCode = 0
    /\ trace = Order

(***************************************************************************)
(* C9                                                                      *)
(***************************************************************************)
\* A step has failed: an exception is in flight or was handled, or the run
\* has exited with code 1
Failed == exc # "" \/ exitCode = 1

C9_AtMostOnce ==
    /\ Count(trace, "load") <= 1
    /\ Count(trace, "invoke") <= 1
    /\ exitCode = 0 => (Count(trace, "load") = 1 /\ Count(trace, "invoke") = 1)
    /\ Failed => pc \in {"except", "exited"}

\* C9: a run loads the model at most once and runs at most one forward pass,
\* each exactly once when it exits 0; after a failure no step is executed;
\* and the run reaches its exit.
C9_OnceNoRetryTerminates ==
    /\ []C9_AtMostOnce
    /\ [][Failed => trace' = trace]_vars
    /\ <>Exited

\* A run whose forward pass failed and that has exited
C9_Witness ==
    /\ Exited
    /\ exitCode = 1
    /\ modelFile.kind = "unsupported"
    /\ trace[Len(trace)] = "invoke"

(***************************************************************************)
(* C10                                                                     *)
(***************************************************************************)
\* The diagnostic messages written so far, on both streams
Diagnostics ==
    Cardinality({i \in 1..Len(stdout) : stdout[i].text \in NotFoundTexts})
        + Len(stderr)

\* C10: with both paths missing the only line printed is the "Model not
\* found" message for the model path; and no run emits more than one
\* diagnostic message, on one stream only.
C10_ModelCheckFirst ==
    /\ (Exited /\ ~exists(modelFile.kind) /\ ~exists(imageFile)) =>
           /\ Len(stdout) = 1
           /\ stdout[1].text = "Model not found: "
           /\ stdout[1].arg = TFLITE_FP32_PATH
           /\ stderr = <<>>
    /\ "Image not found: " \in Texts(stdout) => exists(modelFile.kind)
    /\ Diagnostics <= 1
    /\ (Exited /\ exitCode = 1) => Diagnostics = 1

\* Both files are missing and the run has exited
C10_Witness ==
    /\ Exited
    /\ ~exists(modelFile.kind)
    /\ ~exists(imageFile)
    /\ Len(stdout) = 1

====
